---- MODULE Spec2Model ----
(***************************************************************************)
(* mpaka: the extraction server (server.js).  One POST /api/extract        *)
(* request is followed from its arrival through basicAuth, URL validation, *)
(* enhancedFetch (the retry loop) and fetchWithHeaders (one HTTP request   *)
(* per hop, redirects, decompression, timeout) to the HTTP response.       *)
(*                                                                         *)
(* The module also follows the cache controller of the service worker, the *)
(* injected configuration, the browser profiles of enhancedFetch and the   *)
(* page's append mode (main.js), each under a specification of its own.    *)
(*                                                                         *)
(* Text (error messages, reason phrases, ports) is a sequence of pieces; a *)
(* digit is always a piece of its own, so that String.includes('403') is a *)
(* search for the three consecutive pieces "4","0","3".                    *)
(***************************************************************************)
EXTENDS Integers, Sequences, FiniteSets, TLC

(* ------------------------------ bounds -------------------------------- *)

\* Longest redirect chain the model follows in one attempt (the code has no limit).
MaxHops == 7

(* ------------------------------- text --------------------------------- *)

DigitChar == <<"0", "1", "2", "3", "4", "5", "6", "7", "8", "9">>

\* `${response.statusCode}`: the decimal digits of a three-digit status.
StatusDigits(n) ==
    << DigitChar[(n \div 100) + 1],
       DigitChar[((n \div 10) % 10) + 1],
       DigitChar[(n % 10) + 1] >>

\* String.prototype.includes: pat occurs in text as a contiguous run.
Includes(text, pat) ==
    \E i \in 0..(Len(text) - Len(pat)) :
        \A j \in 1..Len(pat) : text[i + j] = pat[j]

\* error.message.includes('403')
Mentions403(message) == Includes(message, <<"4", "0", "3">>)

(* ------------------------------- URLs --------------------------------- *)

Url(scheme, host, port, path) ==
    [form |-> "url", scheme |-> scheme, host |-> host, port |-> port, path |-> path]

\* req.body.url absent (or the empty string): falsy.
EmptyUrl == [form |-> "empty", scheme |-> "", host |-> "", port |-> <<>>, path |-> ""]

\* A string new URL() throws on.
GarbageUrl == [form |-> "garbage", scheme |-> "", host |-> "", port |-> <<>>, path |-> ""]

\* What a client may put in the body's url field.
InputUrls ==
    { EmptyUrl,
      GarbageUrl,
      Url("ftp:", "a.example", <<>>, "/"),
      Url("http:", "a.example", <<>>, "/"),
      Url("http:", "a.example", <<"8", "4", "0", "3">>, "/") }

\* Location headers a remote server answers with: a relative path, an absolute URL.
Locations ==
    { [form |-> "path", scheme |-> "", host |-> "", port |-> <<>>, path |-> "/moved"],
      Url("https:", "b.example", <<>>, "/") }

\* new URL(url) succeeds.
Parses(u) == u.form = "url"

\* resolveUrl(response.headers.location, url): new URL(location, base).href
resolveUrl(loc, base) ==
    IF loc.form = "url" THEN loc ELSE [base EXCEPT !.path = loc.path]

\* options.port: parsedUrl.port || (https ? 443 : 80)
OptionsPort(u) ==
    IF u.port # <<>> THEN u.port
    ELSE IF u.scheme = "https:" THEN <<"4", "4", "3">> ELSE <<"8", "0">>

(* --------------------------- authentication --------------------------- *)

BASIC_AUTH_USER == "mpaka"
BASIC_AUTH_PASS == "fdhjfdh2025"

\* An Authorization header: its scheme and, base64-decoded, its credentials.
NoAuthHeader == [scheme |-> "", credentials |-> <<>>]

AuthHeaders ==
    { NoAuthHeader,
      [scheme |-> "Bearer", credentials |-> <<"token">>],
      [scheme |-> "Basic", credentials |-> <<"mpaka", ":", "guess">>],
      [scheme |-> "Basic", credentials |-> <<"mpaka", ":", "fdhjfdh2025">>],
      [scheme |-> "Basic", credentials |-> <<"mpaka", ":", "fdhjfdh2025", ":", "x">>] }

RECURSIVE Split(_, _)
\* String.prototype.split: the fields of text between the occurrences of sep.
Split(text, sep) ==
    IF \A i \in 1..Len(text) : text[i] # sep THEN <<text>>
    ELSE LET i == CHOOSE k \in 1..Len(text) :
                      text[k] = sep /\ \A m \in 1..(k - 1) : text[m] # sep
         IN  <<SubSeq(text, 1, i - 1)>> \o Split(SubSeq(text, i + 1, Len(text)), sep)

\* const [username, password] = fields: a missing element is undefined, which
\* like the empty string equals no configured name or password.
Element(fields, n) == IF n <= Len(fields) THEN fields[n] ELSE <<>>

\* basicAuth: 0 when next() is called, else the status it answers with.
basicAuth(h) ==
    IF h.scheme # "Basic" THEN 401
    ELSE LET fields == Split(h.credentials, ":")
             username == Element(fields, 1)
             password == Element(fields, 2)
         IN  IF username = <<BASIC_AUTH_USER>> /\ password = <<BASIC_AUTH_PASS>>
             THEN 0
             ELSE 401

basicAuthError(h) ==
    IF h.scheme # "Basic" THEN <<"Authentication required">> ELSE <<"Invalid credentials">>

(* ------------------------- remote behaviour --------------------------- *)

\* Status codes a remote server answers with.
Statuses == {200, 204, 302, 403, 404}

\* response.statusMessage: the reason phrase is the remote server's choice.
ReasonPhrases == { <<"Forbidden">>, <<"Error ", "4", "0", "3">> }

\* content-encoding response header ("" when absent).
ContentEncodings == {"", "gzip", "deflate", "br", "zstd"}

\* The bytes of a response body: how they were really coded, and whether the
\* coded stream is intact.  A server sends what its content-encoding header
\* declares, the same cut short, or plain text whatever the header says.
Wires(enc) ==
    LET declared == IF enc = "" THEN "identity" ELSE enc
    IN  { [coding |-> declared, intact |-> TRUE],
          [coding |-> "identity", intact |-> TRUE] }
        \cup (IF declared = "identity" THEN {}
              ELSE {[coding |-> declared, intact |-> FALSE]})

NoWire == [coding |-> "", intact |-> TRUE]

\* Errors the socket layer raises on the request.
NetErrors == {"ECONNREFUSED", "ENOTFOUND", "ECONNRESET"}

(* ------------------------------ messages ------------------------------ *)

\* new Error(`HTTP ${response.statusCode}: ${response.statusMessage}`)
HttpErrorText(status, phrase) == <<"HTTP ">> \o StatusDigits(status) \o <<": ">> \o phrase

\* err.message of a socket-layer error raised while requesting u.
NetErrorText(e, u) ==
    CASE e = "ECONNREFUSED" ->
             <<"connect ECONNREFUSED ", "1", "0", ".", "0", ".", "0", ".", "1", ":">>
                 \o OptionsPort(u)
      [] e = "ENOTFOUND" -> <<"getaddrinfo ENOTFOUND ", u.host>>
      [] OTHER -> <<"read ECONNRESET">>

\* new Error(`Request error: ${err.message}`)
RequestErrorText(m) == <<"Request error: ">> \o m

\* new Error(`Stream error: ${err.message}`)
StreamErrorText(m) == <<"Stream error: ">> \o m

\* new Error('Request timeout')
TimeoutText == <<"Request timeout">>

(* ------------------------------ promises ------------------------------ *)

Pending == [state |-> "pending", body |-> "", message |-> <<>>]
Fulfilled(body) == [state |-> "fulfilled", body |-> body, message |-> <<>>]
Rejected(message) == [state |-> "rejected", body |-> "", message |-> message]

\* Faulty variant: every call of resolve / reject replaces the outcome.
SettleAgain(p, v) == v

\* resolve(v) / reject(v) of new Promise((resolve, reject) => ...): only the first
\* call on a pending promise has an effect.
Settle(p, v) == IF p.state = "pending" THEN v ELSE p

(* ---------------------------- decompression --------------------------- *)

\* The stream the 'data' / 'end' / 'error' listeners are attached to.
Decoder(enc) == IF enc \in {"gzip", "deflate", "br"} THEN enc ELSE "passthrough"

\* Buffer.concat(data).toString('utf8')
ToUtf8(bytes) == IF bytes.coding = "identity" THEN "page" ELSE "garbled"

\* err.message of a zlib stream fed bytes it cannot decode.
ZlibErrorText(enc, wire) ==
    IF wire.coding = enc THEN <<"unexpected end of file">> ELSE <<"incorrect header check">>

\* What the stream listeners do once every byte of the body has arrived.
StreamEnd(enc, wire) ==
    IF Decoder(enc) = "passthrough" THEN Fulfilled(ToUtf8(wire))
    ELSE IF wire.coding = enc /\ wire.intact
         THEN Fulfilled(ToUtf8([coding |-> "identity", intact |-> TRUE]))
         ELSE Rejected(StreamErrorText(ZlibErrorText(enc, wire)))

(* ------------------------------ the loop ------------------------------ *)

\* enhancedFetch(url, maxRetries = 3): /api/extract always takes the default.
maxRetries == 3

\* for (...; attempt <= maxRetries; ...)
LoopCondition(a) == a <= maxRetries

\* if (error.message.includes('403') && attempt < maxRetries) continue;
RetryOn403(message, a) == Mentions403(message) /\ a < maxRetries

\* if (!error.message.includes('403') || attempt === maxRetries) break;
BreakLoop(message, a) == ~Mentions403(message) \/ a = maxRetries

\* Faulty variant: every 403 is retried, whatever the attempt number.
NextIterationUncounted(message, a) == Mentions403(message)

\* The catch block of attempt a is followed by another iteration of the loop.
NextIteration(message, a) ==
    (RetryOn403(message, a) \/ ~BreakLoop(message, a)) /\ LoopCondition(a + 1)

(* ------------------------------ responses ----------------------------- *)

NoContent == [url |-> EmptyUrl, text |-> ""]

\* extractTextContent(html, baseUrl): the text, under a "URL: ${baseUrl}" line.
extractTextContent(html, baseUrl) == [url |-> baseUrl, text |-> html]

NoResponse ==
    [status |-> 0, success |-> FALSE, error |-> <<>>, content |-> NoContent, url |-> EmptyUrl]

\* res.status(s).json({ error, url })
ErrorResponse(s, message, u) ==
    [status |-> s, success |-> FALSE, error |-> message, content |-> NoContent, url |-> u]

\* res.json({ success: true, content, url, timestamp })
SuccessResponse(content, u) ==
    [status |-> 200, success |-> TRUE, error |-> <<>>, content |-> content, url |-> u]

\* Faulty variant: every 2xx status is let through to the body.
StatusRejectedOutside2xx(status) == status < 200 \/ status >= 300

\* if (response.statusCode !== 200) return reject(...)
StatusRejected(status) == status # 200

\* response.statusCode >= 300 && response.statusCode < 400 && response.headers.location
IsRedirect(status, loc) == status >= 300 /\ status < 400 /\ loc.form # "empty"

(* ------------------------------- state -------------------------------- *)

(* ------------------- the offline cache: its state --------------------- *)

\* The service worker that server.js serves at /service-worker.js keeps the
\* application's assets in versioned cache generations; the page (main.js)
\* registers it and listens for its messages.

NumAssets == 2
MaxGens == 3
MaxVersions == 2

Manifest == 1..NumAssets
GenIds == 1..MaxGens

\* asset -> the generation whose fetch wrote the entry, 0 while it is missing
NoAssets == [a \in Manifest |-> 0]

NoGeneration ==
    [tag |-> 0, status |-> "NONE", kind |-> "", cut |-> FALSE, assets |-> NoAssets]

NoOp == [gen |-> 0, asset |-> 0]

VARIABLES
    deployed,   \* the version tag the server injects (CACHE_VERSION)
    swState,    \* the controller: "UNINITIALIZED", "FIRST_TIME_INSTALL",
                \* "UPDATE_CHECK" or "READY"
    gens,       \* the cache generations: version tag, status, the cycle kind that
                \* built it, whether it was ever cut over, asset -> content
    fetchOp,    \* the builder's network operation in flight
    lateOps,    \* cancelled operations whose result may still arrive
    swError,    \* the error the controller surfaced
    inbox,      \* messages posted to the page, not yet dispatched
    pageState,  \* "loading" until the page's script has registered the worker, then
                \* "listening" if it added a message listener, "loaded" if not
    handled,    \* messages the page's listener has run on
    reloads,    \* window.location.reload() calls
    reads       \* the assets served to the current page load, in order

cacheVars ==
    <<deployed, swState, gens, fetchOp, lateOps, swError, inbox, pageState,
      handled, reloads, reads>>

CacheStart ==
    /\ deployed = 1
    /\ swState = "UNINITIALIZED"
    /\ gens = [g \in GenIds |-> NoGeneration]
    /\ fetchOp = NoOp
    /\ lateOps = {}
    /\ swError = <<>>
    /\ inbox = <<>>
    /\ pageState = "loading"
    /\ handled = 0
    /\ reloads = 0
    /\ reads = <<>>

(* --------------- the injected configuration: its state ---------------- *)

VARIABLES
    env,        \* process.env of the server
    injected    \* the globals the served service worker script starts with

configVars == <<env, injected>>

Unset == <<>>

NotServed ==
    [SW_CACHE_NAME |-> <<>>, SW_TEMP_CACHE_NAME |-> <<>>,
     SW_FIRST_TIME_TIMEOUT |-> <<>>, SW_RETURNING_USER_TIMEOUT |-> <<>>]

NoEnv ==
    [CACHE_VERSION |-> Unset, APP_NAME |-> Unset,
     SW_FIRST_TIME_TIMEOUT |-> Unset, SW_RETURNING_USER_TIMEOUT |-> Unset]

ConfigStart ==
    /\ env = NoEnv
    /\ injected = NotServed

(* ------------------------- browser profiles ---------------------------- *)

\* The user agent pool, every string cut into pieces so that the words
\* getEnhancedHeaders looks for, the platform and the major version of the
\* browser are pieces of their own.
USER_AGENTS ==
    << <<"Mozilla/5.0 (", "Windows", " NT 10.0; Win64; x64) AppleWebKit/537.36 (KHTML, like Gecko) ",
         "Chrome", "/", "131", ".0.0.0 ", "Safari", "/537.36">>,
       <<"Mozilla/5.0 (", "Windows", " NT 10.0; Win64; x64) AppleWebKit/537.36 (KHTML, like Gecko) ",
         "Chrome", "/", "130", ".0.0.0 ", "Safari", "/537.36">>,
       <<"Mozilla/5.0 (", "Windows", " NT 10.0; Win64; x64) AppleWebKit/537.36 (KHTML, like Gecko) ",
         "Chrome", "/", "129", ".0.0.0 ", "Safari", "/537.36">>,
       <<"Mozilla/5.0 (", "Windows", " NT 10.0; Win64; x64; rv:132.0) Gecko/20100101 ",
         "Firefox", "/", "132", ".0">>,
       <<"Mozilla/5.0 (", "Windows", " NT 10.0; Win64; x64; rv:131.0) Gecko/20100101 ",
         "Firefox", "/", "131", ".0">>,
       <<"Mozilla/5.0 (", "Macintosh", "; Intel Mac OS X 10_15_7) AppleWebKit/537.36 (KHTML, like Gecko) ",
         "Chrome", "/", "131", ".0.0.0 ", "Safari", "/537.36">>,
       <<"Mozilla/5.0 (", "Macintosh", "; Intel Mac OS X 10_15_7) AppleWebKit/537.36 (KHTML, like Gecko) ",
         "Chrome", "/", "130", ".0.0.0 ", "Safari", "/537.36">>,
       <<"Mozilla/5.0 (", "Macintosh", "; Intel Mac OS X 10.15; rv:132.0) Gecko/20100101 ",
         "Firefox", "/", "132", ".0">>,
       <<"Mozilla/5.0 (", "Macintosh", "; Intel Mac OS X 10_15_7) AppleWebKit/605.1.15 (KHTML, like Gecko) Version/18.1.1 ",
         "Safari", "/605.1.15">>,
       <<"Mozilla/5.0 (", "Windows", " NT 10.0; Win64; x64) AppleWebKit/537.36 (KHTML, like Gecko) ",
         "Chrome", "/", "131", ".0.0.0 ", "Safari", "/537.36 ", "Edg", "/", "131", ".0.0.0">> >>

\* Urls enhancedFetch is called with: the handler has let them through.
FetchedUrls ==
    { Url("http:", "a.example", <<>>, "/"),
      Url("https:", "a.example", <<>>, "/") }

\* baseHeaders[name] = value
SetHeader(h, name, value) ==
    [n \in DOMAIN h \cup {name} |-> IF n = name THEN value ELSE h[n]]

\* delete baseHeaders[name], for every name of names
DeleteHeaders(h, names) == [n \in DOMAIN h \ names |-> h[n]]

\* The object literal of getEnhancedHeaders.
baseHeaders(userAgent, isHttps) ==
    [n \in { "User-Agent", "Accept", "Accept-Language", "Accept-Encoding", "DNT",
             "Connection", "Upgrade-Insecure-Requests", "Sec-Fetch-Dest",
             "Sec-Fetch-Mode", "Sec-Fetch-Site", "Sec-Fetch-User", "Cache-Control" } |->
        CASE n = "User-Agent" -> userAgent
          [] n = "Accept" ->
                <<"text/html,application/xhtml+xml,application/xml;q=0.9,image/avif,image/webp,image/apng,*/*;q=0.8,application/signed-exchange;v=b3;q=0.7">>
          [] n = "Accept-Language" -> <<"en-US,en;q=0.9,fr;q=0.8">>
          [] n = "Accept-Encoding" ->
                <<"gzip, deflate">> \o (IF isHttps THEN <<", br">> ELSE <<>>)
          [] n = "DNT" -> <<"1">>
          [] n = "Connection" -> <<"keep-alive">>
          [] n = "Upgrade-Insecure-Requests" -> <<"1">>
          [] n = "Sec-Fetch-Dest" -> <<"document">>
          [] n = "Sec-Fetch-Mode" -> <<"navigate">>
          [] n = "Sec-Fetch-Site" -> <<"none">>
          [] n = "Sec-Fetch-User" -> <<"?1">>
          [] n = "Cache-Control" -> <<"max-age=0">>]

\* getEnhancedHeaders with its last branch left out.
getEnhancedHeadersWithoutEdge(userAgent, url) ==
    LET base == baseHeaders(userAgent, url.scheme = "https:")
    IN  IF Includes(userAgent, <<"Chrome">>) /\ ~Includes(userAgent, <<"Edg">>) THEN
            SetHeader(SetHeader(SetHeader(base,
                "sec-ch-ua",
                <<"\"", "Google Chrome", "\";v=\"", "131", "\", \"Chromium\";v=\"131\", \"Not_A Brand\";v=\"24\"">>),
                "sec-ch-ua-mobile", <<"?0">>),
                "sec-ch-ua-platform",
                IF Includes(userAgent, <<"Windows">>) THEN <<"\"", "Windows", "\"">>
                                                      ELSE <<"\"", "macOS", "\"">>)
        ELSE IF Includes(userAgent, <<"Firefox">>) THEN
            DeleteHeaders(base, { "Sec-Fetch-Dest", "Sec-Fetch-Mode",
                                  "Sec-Fetch-Site", "Sec-Fetch-User" })
        ELSE IF Includes(userAgent, <<"Safari">>) /\ ~Includes(userAgent, <<"Chrome">>) THEN
            SetHeader(base, "Sec-Fetch-Site", <<"same-origin">>)
        ELSE base

\* getEnhancedHeaders(userAgent, url)
getEnhancedHeaders(userAgent, url) ==
    LET base == baseHeaders(userAgent, url.scheme = "https:")
    IN  IF Includes(userAgent, <<"Chrome">>) /\ ~Includes(userAgent, <<"Edg">>) THEN
            SetHeader(SetHeader(SetHeader(base,
                "sec-ch-ua",
                <<"\"", "Google Chrome", "\";v=\"", "131", "\", \"Chromium\";v=\"131\", \"Not_A Brand\";v=\"24\"">>),
                "sec-ch-ua-mobile", <<"?0">>),
                "sec-ch-ua-platform",
                IF Includes(userAgent, <<"Windows">>) THEN <<"\"", "Windows", "\"">>
                                                      ELSE <<"\"", "macOS", "\"">>)
        ELSE IF Includes(userAgent, <<"Firefox">>) THEN
            DeleteHeaders(base, { "Sec-Fetch-Dest", "Sec-Fetch-Mode",
                                  "Sec-Fetch-Site", "Sec-Fetch-User" })
        ELSE IF Includes(userAgent, <<"Safari">>) /\ ~Includes(userAgent, <<"Chrome">>) THEN
            SetHeader(base, "Sec-Fetch-Site", <<"same-origin">>)
        ELSE IF Includes(userAgent, <<"Edg">>) THEN
            SetHeader(SetHeader(SetHeader(base,
                "sec-ch-ua",
                <<"\"", "Microsoft Edge", "\";v=\"", "131", "\", \"Chromium\";v=\"131\", \"Not_A Brand\";v=\"24\"">>),
                "sec-ch-ua-mobile", <<"?0">>),
                "sec-ch-ua-platform", <<"\"", "Windows", "\"">>)
        ELSE base

VARIABLES
    profiles    \* the header sets one enhancedFetch call has built, one per attempt

profileVars == <<profiles>>

ProfileStart == profiles = <<>>

(* --------------------------- the page (main.js) ------------------------ *)

\* Most extractions one page is followed through.
MaxExtractions == 4

\* const SEPARATOR = '\n' + '*'.repeat(80) + '\n'
SEPARATOR == <<"\n", "********************************************************************************", "\n">>

\* Pieces String.prototype.trim removes at either end.
WhiteSpace == {"\n", " "}

RECURSIVE TrimStart(_)
TrimStart(text) ==
    IF text # <<>> /\ Head(text) \in WhiteSpace THEN TrimStart(Tail(text)) ELSE text

RECURSIVE TrimEnd(_)
TrimEnd(text) ==
    IF text # <<>> /\ text[Len(text)] \in WhiteSpace
    THEN TrimEnd(SubSeq(text, 1, Len(text) - 1))
    ELSE text

\* String.prototype.trim
Trim(text) == TrimStart(TrimEnd(text))

\* data.content of a success answer of /api/extract, as extractTextContent
\* builds it: the header lines, then the text of the page trimmed.  A page
\* without text leaves the two line feeds of the header at the end.
Contents ==
    { <<"URL: http://a.example/", "\n", "\n", "---CONTENT---", "\n", "\n", "alpha">>,
      <<"TITLE: b", "\n", "\n", "URL: http://b.example/", "\n", "\n", "---CONTENT---",
        "\n", "\n", "beta", " ", "gamma">>,
      <<"URL: http://c.example/", "\n", "\n", "---CONTENT---", "\n", "\n">> }

\* What handleFetch's fetch ends with: a success answer, an error answer
\* (response.ok false), the abort of the 60 s timer.
Answers ==
    { [ok |-> TRUE, success |-> TRUE, content |-> c] : c \in Contents }
        \cup { [ok |-> FALSE, success |-> FALSE, content |-> <<>>],
               [ok |-> TRUE, success |-> FALSE, content |-> <<>>] }

\* appendContent with the separator left out.
appendContentWithoutSeparator(value, newContent) ==
    LET currentContent == Trim(value)
    IN  IF currentContent # <<>> THEN currentContent \o newContent ELSE newContent

\* appendContent(newContent): the new outputContent.value.
appendContent(value, newContent) ==
    LET currentContent == Trim(value)
    IN  IF currentContent # <<>> THEN currentContent \o SEPARATOR \o newContent
                                 ELSE newContent

\* The scripts of main.js: the file holds two, one after the other, and each
\* adds its own listeners to the elements of the page.
Scripts == {1, 2}

VARIABLES
    isLoading,  \* isLoading of each script
    inFlight,   \* the fetches each script awaits
    disabled,   \* fetchButton.disabled and urlInput.disabled
    output,     \* outputContent.value
    extracted   \* the contents appended since the output was last empty, in order

pageVars == <<isLoading, inFlight, disabled, output, extracted>>

PageStart ==
    /\ isLoading = [k \in Scripts |-> FALSE]
    /\ inFlight = [k \in Scripts |-> 0]
    /\ disabled = FALSE
    /\ output = <<>>
    /\ extracted = <<>>

(* ----------------------- the cache-lock rescue ------------------------- *)

\* '-${CACHE_VERSION}': what the rescue code looks for in a cache name.
VersionMark(version) == <<"-">> \o version

\* Faulty variant: the test of cacheNames.length is left out.
CacheLockDetectedOnEmpty(cacheNames, version) ==
    ~(\E name \in cacheNames : Includes(name, VersionMark(version)))

\* !hasCurrentVersion && cacheNames.length > 0
CacheLockDetected(cacheNames, version) ==
    LET hasCurrentVersion ==
            \E name \in cacheNames : Includes(name, VersionMark(version))
    IN  ~hasCurrentVersion /\ cacheNames # {}

\* Caches a client may hold from earlier visits: those of an older version of
\* the application, and one of another application of the same origin.
EarlierCaches ==
    { <<"mpaka", "-", "v1">>, <<"mpaka", "-", "temp", "-", "v1">>, <<"fonts">> }

VARIABLES
    rescuePage,     \* the page: "away", "loading", "reloading" (the rescue has
                    \* called location.reload()), "shown"
    cacheNames,     \* what caches.keys() answers
    registration,   \* a service worker is registered for the page
    installing      \* the globals of the worker that is installing (NotServed: none)

rescueVars == <<rescuePage, cacheNames, registration, installing>>

RescueStart ==
    /\ rescuePage = "away"
    /\ cacheNames = {}
    /\ registration = FALSE
    /\ installing = NotServed

(* ------------------------- concurrent requests ------------------------- *)

\* The requests followed together.
Requests == {1, 2}

\* What the fetchWithHeaders call of an attempt may settle with.
Outcomes ==
    { Fulfilled("page"),
      Rejected(HttpErrorText(403, <<"Forbidden">>)),
      Rejected(TimeoutText) }

VARIABLES
    handlers    \* per request in progress: the locals of its handler and of its
                \* enhancedFetch call, and what the remote servers answered it

handlerVars == <<handlers>>

NoHandler ==
    [pc |-> "idle", req |-> [auth |-> NoAuthHeader, url |-> EmptyUrl], attempt |-> 0,
     headers |-> <<>>, lastError |-> <<>>, res |-> NoResponse, inputs |-> <<>>]

HandlerStart == handlers = [r \in Requests |-> NoHandler]

(* ---------------------- one /api/extract request ---------------------- *)

VARIABLES
    pc,         \* where the request's handler is: "idle" (not yet arrived), "delay"
                \* (awaiting randomDelay), "fetch" (request sent, no response yet),
                \* "body" (200 received, body streaming), "done" (response sent)
    req,        \* the request: its Authorization header and its body's url
    attempt,    \* enhancedFetch's loop variable
    curUrl,     \* url of the fetchWithHeaders call in flight
    hops,       \* redirects followed by the attempt in flight
    destroyed,  \* request.destroy() was called by the 'timeout' listener
    linger,     \* events still to come from requests whose promise is settled
    lastError,  \* enhancedFetch's lastError (its message)
    res,        \* the HTTP response sent to the API caller
    log         \* one record per fetchWithHeaders call of enhancedFetch: the terminal
                \* response it met and the state of the promise it returned

serverVars == <<pc, req, attempt, curUrl, hops, destroyed, linger, lastError, res, log>>

vars == <<serverVars, handlerVars, cacheVars, configVars, profileVars, pageVars, rescueVars>>

NoRequest == [auth |-> NoAuthHeader, url |-> EmptyUrl]

NewAttempt ==
    [strategy |-> "DIRECT", status |-> 0, enc |-> "", wire |-> NoWire, result |-> Pending]

Init ==
    /\ pc = "idle"
    /\ req = NoRequest
    /\ attempt = 0
    /\ curUrl = EmptyUrl
    /\ hops = 0
    /\ destroyed = FALSE
    /\ linger = {}
    /\ lastError = <<>>
    /\ res = NoResponse
    /\ log = <<>>
    /\ CacheStart
    /\ ConfigStart
    /\ ProfileStart
    /\ PageStart
    /\ RescueStart
    /\ HandlerStart

\* The attempt in flight (the last fetchWithHeaders call of enhancedFetch).
Current == log[Len(log)]

(* ------------------------------ actions -------------------------------- *)

\* const content = await fetchWithHeaders(url, headers): the request is sent.
CallFetch(u) ==
    /\ curUrl' = u
    /\ hops' = 0
    /\ destroyed' = FALSE
    /\ log' = Append(log, NewAttempt)
    /\ pc' = "fetch"

\* POST /api/extract arrives: basicAuth, validation, and the first iteration of
\* enhancedFetch up to its first await.
Arrive(h, u) ==
    /\ pc = "idle"
    /\ req' = [auth |-> h, url |-> u]
    /\ UNCHANGED <<linger, lastError>>
    /\ IF basicAuth(h) # 0 THEN
           /\ res' = ErrorResponse(basicAuth(h), basicAuthError(h), EmptyUrl)
           /\ pc' = "done"
           /\ UNCHANGED <<attempt, curUrl, hops, destroyed, log>>
       ELSE IF u.form = "empty" THEN
           /\ res' = ErrorResponse(400, <<"URL is required">>, EmptyUrl)
           /\ pc' = "done"
           /\ UNCHANGED <<attempt, curUrl, hops, destroyed, log>>
       ELSE IF ~Parses(u) THEN
           \* new URL(url) throws inside the try: the catch answers
           /\ res' = ErrorResponse(500, <<"Invalid URL">>, u)
           /\ pc' = "done"
           /\ UNCHANGED <<attempt, curUrl, hops, destroyed, log>>
       ELSE IF u.scheme \notin {"http:", "https:"} THEN
           /\ res' = ErrorResponse(500, <<"Only HTTP and HTTPS protocols are supported">>, u)
           /\ pc' = "done"
           /\ UNCHANGED <<attempt, curUrl, hops, destroyed, log>>
       ELSE
           /\ LoopCondition(1)
           /\ attempt' = 1
           /\ CallFetch(u)
           /\ UNCHANGED res

\* Faulty variant: the loop does not await the call in flight before the next.
DelayElapsedWithoutAwait ==
    /\ pc \in {"delay", "fetch"}
    /\ Len(log) < maxRetries
    /\ CallFetch(req.url)
    /\ UNCHANGED <<req, attempt, linger, lastError, res>>

\* randomDelay() resolves: attempt > 1 goes on to its fetchWithHeaders call.
DelayElapsed ==
    /\ pc = "delay"
    /\ CallFetch(req.url)
    /\ UNCHANGED <<req, attempt, linger, lastError, res>>

\* Faulty variant: the successful attempt does not return; the loop goes on as after a
\* failure that left lastError alone.
SettledWithoutReturn(entry, v) ==
    /\ log' = [log EXCEPT ![Len(log)] = [entry EXCEPT !.result = Settle(entry.result, v)]]
    /\ curUrl' = EmptyUrl
    /\ hops' = 0
    /\ lastError' = IF v.state = "fulfilled" THEN lastError ELSE v.message
    /\ IF (v.state = "fulfilled" \/ NextIteration(v.message, attempt))
          /\ LoopCondition(attempt + 1) THEN
           /\ attempt' = attempt + 1
           /\ pc' = "delay"
           /\ UNCHANGED res
       ELSE
           /\ res' = ErrorResponse(500, lastError', req.url)
           /\ pc' = "done"
           /\ UNCHANGED attempt

\* The promise awaited by enhancedFetch settles with v (entry: the attempt's record
\* as the settling event leaves it): the rest of the loop body, and of the
\* /api/extract handler when the loop is left.
Settled(entry, v) ==
    /\ log' = [log EXCEPT ![Len(log)] = [entry EXCEPT !.result = Settle(entry.result, v)]]
    /\ curUrl' = EmptyUrl
    /\ hops' = 0
    /\ IF v.state = "fulfilled" THEN
           /\ res' = SuccessResponse(extractTextContent(v.body, req.url), req.url)
           /\ pc' = "done"
           /\ UNCHANGED <<lastError, attempt>>
       ELSE
           /\ lastError' = v.message
           /\ IF NextIteration(v.message, attempt) THEN
                  /\ attempt' = attempt + 1
                  /\ pc' = "delay"
                  /\ UNCHANGED res
              ELSE
                  /\ res' = ErrorResponse(500, v.message, req.url)
                  /\ pc' = "done"
                  /\ UNCHANGED attempt

Lingering(event) == [event |-> event, attempt |-> attempt]

\* client.request's callback: the response head of the request in flight arrives.
ResponseHead(status, phrase, loc, enc) ==
    /\ pc = "fetch"
    /\ UNCHANGED <<req, destroyed>>
    /\ IF IsRedirect(status, loc) THEN
           \* return resolve(fetchWithHeaders(redirectUrl, headers)); the answered
           \* request stays open, its body unread
           /\ hops < MaxHops
           /\ curUrl' = resolveUrl(loc, curUrl)
           /\ hops' = hops + 1
           /\ UNCHANGED <<pc, attempt, linger, lastError, res, log>>
       ELSE IF StatusRejected(status) THEN
           /\ Settled([Current EXCEPT !.status = status],
                      Rejected(HttpErrorText(status, phrase)))
           /\ linger' = linger \cup {Lingering("timeout")}
       ELSE
           /\ pc' = "body"
           /\ log' = [log EXCEPT ![Len(log)] = [@ EXCEPT !.status = status, !.enc = enc]]
           /\ UNCHANGED <<attempt, curUrl, hops, linger, lastError, res>>

\* stream 'end' (or the zlib stream's 'error'): every byte of the body has arrived.
BodyEnd ==
    /\ pc = "body"
    /\ \E wire \in Wires(Current.enc) :
           Settled([Current EXCEPT !.wire = wire], StreamEnd(Current.enc, wire))
    /\ UNCHANGED <<req, destroyed, linger>>

\* stream 'error' on the response itself: the connection is cut mid-body.
ResponseAborted ==
    /\ pc = "body"
    /\ Decoder(Current.enc) = "passthrough"
    /\ Settled(Current, Rejected(StreamErrorText(<<"aborted">>)))
    /\ UNCHANGED <<req, destroyed, linger>>

\* request 'error'
RequestError(e) ==
    /\ pc \in {"fetch", "body"}
    /\ pc = "body" => e = "ECONNRESET"
    /\ Settled(Current, Rejected(RequestErrorText(NetErrorText(e, curUrl))))
    /\ UNCHANGED <<req, destroyed, linger>>

\* Faulty variant: the 'timeout' listener destroys the request and forgets to reject.
TimeoutWithoutReject ==
    /\ pc \in {"fetch", "body"}
    /\ destroyed' = TRUE
    /\ linger' = linger \cup {Lingering("reqError")}
    /\ UNCHANGED <<pc, req, attempt, curUrl, hops, lastError, res, log>>

\* request 'timeout': request.destroy(); reject(new Error('Request timeout'))
Timeout ==
    /\ pc \in {"fetch", "body"}
    /\ destroyed' = TRUE
    /\ Settled(Current, Rejected(TimeoutText))
    /\ linger' = linger \cup
           (IF pc = "fetch" THEN {Lingering("reqError")}
            ELSE IF Decoder(Current.enc) = "passthrough"
                 THEN {Lingering("streamError")}
                 ELSE {})
    /\ UNCHANGED req

LateText(event) ==
    CASE event = "timeout" -> TimeoutText
      [] event = "reqError" -> RequestErrorText(<<"socket hang up">>)
      [] OTHER -> StreamErrorText(<<"aborted">>)

\* A listener of a request whose promise is already settled runs and calls reject.
LateEvent(l) ==
    /\ l \in linger
    /\ linger' = linger \ {l}
    /\ log' = [log EXCEPT ![l.attempt].result = Settle(@, Rejected(LateText(l.event)))]
    /\ UNCHANGED <<pc, req, attempt, curUrl, hops, destroyed, lastError, res>>

\* The steps of the request: they leave the cache and the configuration alone.
Apart == UNCHANGED <<handlerVars, cacheVars, configVars, profileVars, pageVars, rescueVars>>

Next ==
    \/ (\E h \in AuthHeaders, u \in InputUrls : Arrive(h, u)) /\ Apart
    \/ DelayElapsed /\ Apart
    \/ (\E status \in Statuses, phrase \in ReasonPhrases,
           loc \in Locations \cup {EmptyUrl}, enc \in ContentEncodings :
               ResponseHead(status, phrase, loc, enc)) /\ Apart
    \/ BodyEnd /\ Apart
    \/ ResponseAborted /\ Apart
    \/ (\E e \in NetErrors : RequestError(e)) /\ Apart
    \/ Timeout /\ Apart
    \/ (\E l \in linger : LateEvent(l)) /\ Apart

Spec == Init /\ [][Next]_vars

TypeOK ==
    /\ pc \in {"idle", "delay", "fetch", "body", "done"}
    /\ attempt \in 0..maxRetries
    /\ hops \in 0..MaxHops
    /\ destroyed \in BOOLEAN
    /\ Len(log) <= maxRetries

(* --------------------------- reading the log -------------------------- *)

IsSettled(e) == e.result.state # "pending"
Failed(e) == e.result.state = "rejected"
Succeeded(e) == e.result.state = "fulfilled"

\* The spec's outcome classes, read off the error the code built.
IsHttpError(e) == Failed(e) /\ Head(e.result.message) = "HTTP "
IsTimeout(e) == Failed(e) /\ e.result.message = TimeoutText
IsNetworkError(e) ==
    Failed(e) /\ Head(e.result.message) \in {"Request error: ", "Stream error: "}

\* The attempt met a terminal response with HTTP status 403.
Failed403(e) == IsHttpError(e) /\ e.status = 403

\* enhancedFetch has thrown: the loop is left with the last attempt rejected.
RetryFailed == pc = "done" /\ Len(log) > 0 /\ Failed(Current)

\* A rendering session was launched for the request.
RenderInvoked == \E i \in 1..Len(log) : log[i].strategy = "RENDER"

\* The request passed basicAuth and failed the handler's checks of its url.
ValidationFailure ==
    /\ basicAuth(req.auth) = 0
    /\ \/ req.url.form # "url"
       \/ req.url.scheme \notin {"http:", "https:"}

(* ------------------------------- claims -------------------------------- *)

\* C1 (as claimed): after a failed attempt another attempt is started if and only
\* if that attempt failed with HTTP status 403 and attempts remain; any other
\* failure ends the loop after that attempt.
C1_RetryExactlyOnStatus403 ==
    \A i \in 1..Len(log) :
        Failed(log[i]) => ((attempt > i) <=> (Failed403(log[i]) /\ i < maxRetries))

\* C2: enhancedFetch calls fetchWithHeaders at most maxRetries times, and when
\* all maxRetries attempts fail with 403 it throws the error of the last one,
\* which is the error the API caller is answered with.
C2_AtMostMaxRetriesAndLastError ==
    /\ Len(log) <= maxRetries
    /\ attempt <= maxRetries
    /\ (pc = "done" /\ Len(log) = maxRetries /\ \A i \in 1..Len(log) : Failed403(log[i]))
           => /\ lastError = log[maxRetries].result.message
              /\ res = ErrorResponse(500, log[maxRetries].result.message, req.url)

\* C2 witness: three attempts, all 403, the first and the last with different
\* messages, and the request answered.
C2_Witness ==
    /\ pc = "done"
    /\ Len(log) = maxRetries
    /\ \A i \in 1..Len(log) : Failed403(log[i])
    /\ log[1].result.message # log[maxRetries].result.message

\* C3: a direct attempt that succeeds is the last one: the request is answered at
\* once with that attempt's body, no further attempt is made and no rendering
\* session is launched.
C3_SuccessReturnsAtOnce ==
    \A k \in 1..Len(log) :
        Succeeded(log[k]) =>
            /\ k = Len(log)
            /\ attempt = k
            /\ pc = "done"
            /\ res = SuccessResponse(extractTextContent(log[k].result.body, req.url), req.url)
            /\ ~RenderInvoked

\* C3 witness: the second attempt succeeded after a first one failed.
C3_Witness == Len(log) = 2 /\ Failed(log[1]) /\ Succeeded(log[2])

\* C4 (as claimed): a rendering session is launched if and only if enhancedFetch
\* has failed, and a failed enhancedFetch is followed by one before any error is
\* returned to the caller.
C4_RenderIffRetryFailed ==
    /\ RenderInvoked => \E i \in 1..Len(log) : log[i].strategy = "DIRECT" /\ Failed(log[i])
    /\ (RetryFailed /\ res.status # 0) => RenderInvoked

\* C5 (as claimed): one attempt follows at most 5 redirects (at most 6 requests).
C5_AtMostFiveRedirects == hops <= 5

\* C6 (as claimed): an error answered for a failed extraction carries the failure
\* description of the direct stage and that of the render stage.
C6_ErrorCarriesBothStages ==
    (RetryFailed /\ res.status # 0) =>
        /\ \E i \in 1..Len(log) :
               /\ log[i].strategy = "DIRECT" /\ Failed(log[i])
               /\ Includes(res.error, log[i].result.message)
        /\ \E j \in 1..Len(log) :
               /\ log[j].strategy = "RENDER" /\ Failed(log[j])
               /\ Includes(res.error, log[j].result.message)

\* The body arrived whole, coded as the content-encoding header declares, in one
\* of the codings the code decodes.
DecodableBody(e) ==
    /\ e.wire # NoWire
    /\ e.wire.intact
    /\ \/ e.enc = "" /\ e.wire.coding = "identity"
       \/ e.enc \in {"gzip", "deflate", "br"} /\ e.wire.coding = e.enc

\* The error carries the numeric status of the response.
CarriesStatus(e) == Includes(e.result.message, StatusDigits(e.status))

\* C7 (as claimed): for a terminal response the attempt fails with HTTP_ERROR
\* carrying the status exactly when the status is not in 200..299, and every 2xx
\* response whose body decodes is a success.
C7_HttpErrorExactlyOnNon2xx ==
    \A i \in 1..Len(log) :
        (IsSettled(log[i]) /\ log[i].status # 0) =>
            /\ IsHttpError(log[i]) <=> log[i].status \notin 200..299
            /\ IsHttpError(log[i]) => CarriesStatus(log[i])
            /\ (log[i].status \in 200..299 /\ DecodableBody(log[i])) => Succeeded(log[i])

\* C7 (amended): for a terminal response the attempt fails with HTTP_ERROR
\* carrying the status exactly when the status is not 200 (201..299 included),
\* and every 200 response whose body arrives whole and decodes is a success
\* returning the decoded text.
C7_HttpErrorExactlyOnNon200 ==
    \A i \in 1..Len(log) :
        (IsSettled(log[i]) /\ log[i].status # 0) =>
            /\ IsHttpError(log[i]) <=> log[i].status # 200
            /\ IsHttpError(log[i]) => CarriesStatus(log[i])
            /\ (log[i].status = 200 /\ DecodableBody(log[i]))
                   => log[i].result = Fulfilled("page")

\* C7 witness: a 204 answered with an HTTP error naming 204, after which the
\* request was answered with that error.
C7_Witness ==
    /\ pc = "done"
    /\ Len(log) > 0
    /\ Current.status = 204
    /\ IsHttpError(Current)
    /\ res.status = 500
    /\ Includes(res.error, <<"2", "0", "4">>)

\* C8 (as claimed): a body is decoded according to content-encoding for identity,
\* gzip, deflate and brotli; any other content-encoding, or a corrupt compressed
\* body, fails the attempt with a network error; a successful body is never
\* undecoded bytes.
C8_DecodedOrNetworkError ==
    \A i \in 1..Len(log) :
        (IsSettled(log[i]) /\ log[i].wire # NoWire) =>
            /\ DecodableBody(log[i]) => log[i].result = Fulfilled("page")
            /\ (log[i].enc \notin {"", "gzip", "deflate", "br"} \/ ~log[i].wire.intact)
                   => IsNetworkError(log[i])
            /\ Succeeded(log[i]) => log[i].result.body = "page"

\* C9: once the 'timeout' listener has destroyed the request in flight, the attempt
\* is rejected with the timeout error and stays so whatever arrives later: the loop
\* is left, and the caller is answered with the timeout error, never with a body.
\* No attempt is reported as timed out without its request having been destroyed.
C9_TimeoutAbortsAndStays ==
    /\ destroyed =>
           /\ pc = "done"
           /\ Current.result = Rejected(TimeoutText)
           /\ lastError = TimeoutText
           /\ res = ErrorResponse(500, TimeoutText, req.url)
    /\ \A i \in 1..Len(log) : IsTimeout(log[i]) => (i = Len(log) /\ destroyed)

\* C9 witness: the timeout fell while a 200 body was streaming, and the error the
\* destroyed response raised afterwards has been delivered.
C9_Witness ==
    /\ destroyed
    /\ Current.status = 200
    /\ Decoder(Current.enc) = "passthrough"
    /\ linger = {}

\* C10 (as claimed): a validation failure (url missing, unparsable, or not
\* http/https) is answered 4xx and starts no outbound fetch; a failed fetch is
\* answered 5xx.
C10_ValidationIs4xx ==
    res.status # 0 =>
        /\ ValidationFailure => (res.status \in 400..499 /\ Len(log) = 0)
        /\ RetryFailed => res.status \in 500..599

(* ====================== the offline cache controller ================== *)

(* ----------------------------- generations ---------------------------- *)

WithStatus(gs, s) == {g \in GenIds : gs[g].status = s}

Committed(gs) == WithStatus(gs, "COMMITTED")

\* Derived, not stored: RETURNING if any COMMITTED generation exists.
UserState(gs) == IF Committed(gs) # {} THEN "RETURNING" ELSE "FIRST_TIME"

\* Faulty variant: UserState is stored at the first activation and never
\* recomputed.
CycleForStored(gs) == "FIRST_TIME_INSTALL"

\* The cycle an activation starts.
CycleFor(gs) ==
    IF UserState(gs) = "RETURNING" THEN "UPDATE_CHECK" ELSE "FIRST_TIME_INSTALL"

Building == swState \in {"FIRST_TIME_INSTALL", "UPDATE_CHECK"}

\* Faulty variant: a second builder may start while one runs.
CanStartCycleAlways(tag) == TRUE

\* One builder at a time per version tag, and only between cycles.
CanStartCycle(tag) ==
    /\ ~Building
    /\ \A g \in GenIds :
          gens[g].tag = tag => gens[g].status \notin {"BUILDING", "VERIFIED"}

\* Faulty variant: one fetched entry is enough.
CompleteWithAnyEntry(gen) == \E a \in Manifest : gen.assets[a] # 0

\* Verify all files present: every manifest entry has a fetched entry.
Complete(gen) == \A a \in Manifest : gen.assets[a] # 0

\* The entry an operation of generation op.gen fetched is written into it.
Store(gs, op) == [gs EXCEPT ![op.gen].assets[op.asset] = op.gen]

\* Faulty variant: what the failed build had fetched is written into the
\* generation that serves.
AbandonKeepingPartial(gs, g) ==
    [h \in GenIds |->
        IF h = g THEN [gs[h] EXCEPT !.status = "ABANDONED", !.assets = NoAssets]
        ELSE IF gs[h].status = "COMMITTED"
             THEN [gs[h] EXCEPT !.assets =
                      [a \in Manifest |->
                          IF gs[g].assets[a] # 0 THEN gs[g].assets[a] ELSE @[a]]]
             ELSE gs[h]]

\* BUILDING -> ABANDONED: partial results are discarded.
Abandon(gs, g) == [gs EXCEPT ![g].status = "ABANDONED", ![g].assets = NoAssets]

\* Faulty variant: the generation that served stays COMMITTED beside the new one.
CutoverKeepingOld(gs, g) == [gs EXCEPT ![g].status = "COMMITTED", ![g].cut = TRUE]

\* VERIFIED -> COMMITTED, the atomic cutover: all other generations are marked
\* ABANDONED and their storage is reclaimed.
Cutover(gs, g) ==
    [h \in GenIds |->
        IF h = g THEN [gs[h] EXCEPT !.status = "COMMITTED", !.cut = TRUE]
        ELSE IF gs[h].status = "NONE" THEN gs[h]
        ELSE [gs[h] EXCEPT !.status = "ABANDONED", !.assets = NoAssets]]

\* Faulty variant: the late result is written where the stores still take it.
MergeLate(gs, op) ==
    [h \in GenIds |->
        IF gs[h].status \in {"BUILDING", "COMMITTED"}
        THEN [gs[h] EXCEPT !.assets[op.asset] = op.gen]
        ELSE gs[h]]

\* The result of a cancelled operation is discarded.
DiscardLate(gs, op) == gs

\* The message a commit posts: a background update that committed notifies the
\* running client; a first install does not.
Notify(kind) == IF kind = "UPDATE_CHECK" THEN <<[action |-> "reload"]>> ELSE <<>>

NoCacheAvailable == <<"no-cache-available">>

\* Faulty variant: a failed first install surfaces nothing.
SurfaceNothing(kind, was) == was

\* The error a failed cycle surfaces: a first install has no fallback, a failed
\* update is abandoned silently.
Surface(kind, was) == IF kind = "FIRST_TIME_INSTALL" THEN NoCacheAvailable ELSE was

NetOutcomes == {"ok", "error", "timeout"}

\* Faulty variant: a network failure fails the request whatever the cache holds.
ServeWithoutFallback(net, gs) == IF net = "ok" THEN "network" ELSE "failed"

\* Per-request serving: network success serves fresh content; a timeout or a
\* network error serves the COMMITTED copy; with neither, the request fails.
ServeDecision(net, gs) ==
    IF net = "ok" THEN "network"
    ELSE IF Committed(gs) # {} THEN "cache" ELSE "failed"

\* Faulty variant: reads are also answered from the in-progress store.
ReadableWithTemp(gs) == Committed(gs) \cup WithStatus(gs, "BUILDING")

\* The generations a read from the cache may be answered from.
Readable(gs) == Committed(gs)

\* if (event.data.action === 'reload')
ShouldReload(data) == data.action = "reload"

(* ------------------------ the controller's steps ---------------------- *)

\* What no step of the cache touches: the extraction request, the configuration.
outside == <<serverVars, handlerVars, configVars, profileVars, pageVars, rescueVars>>

Unused == WithStatus(gens, "NONE")

Lowest(S) == CHOOSE g \in S : \A h \in S : g <= h

\* A new version is released: the server injects another CACHE_VERSION.
Deploy ==
    /\ deployed < MaxVersions
    /\ deployed' = deployed + 1
    /\ UNCHANGED <<outside, swState, gens, fetchOp, lateOps, swError, inbox, pageState,
                   handled, reloads, reads>>

\* An activation, or a request that finds the controller between cycles, starts
\* an install/update cycle: UserState is recomputed and a builder is started on
\* a fresh BUILDING generation of the deployed version.
Activate ==
    /\ CanStartCycle(deployed)
    /\ Unused # {}
    /\ swState' = CycleFor(gens)
    /\ gens' = [gens EXCEPT ![Lowest(Unused)] =
                   [tag |-> deployed, status |-> "BUILDING", kind |-> CycleFor(gens),
                    cut |-> FALSE, assets |-> NoAssets]]
    /\ swError' = <<>>
    /\ UNCHANGED <<outside, deployed, fetchOp, lateOps, inbox, pageState, handled, reloads,
                   reads>>

\* The manifest-fetch loop requests the next missing entry.
FetchAsset(g) ==
    /\ Building
    /\ gens[g].status = "BUILDING"
    /\ fetchOp = NoOp
    /\ ~Complete(gens[g])
    /\ fetchOp' = [gen |-> g,
                   asset |-> Lowest({a \in Manifest : gens[g].assets[a] = 0})]
    /\ UNCHANGED <<outside, deployed, swState, gens, lateOps, swError, inbox, pageState,
                   handled, reloads, reads>>

\* The entry in flight is fetched.
FetchOk ==
    /\ fetchOp # NoOp
    /\ gens' = Store(gens, fetchOp)
    /\ fetchOp' = NoOp
    /\ UNCHANGED <<outside, deployed, swState, lateOps, swError, inbox, pageState, handled,
                   reloads, reads>>

\* The cycle ends without a commit.
EndFailed(g) ==
    /\ gens' = Abandon(gens, g)
    /\ swError' = Surface(swState, swError)
    /\ swState' = "READY"
    /\ UNCHANGED <<outside, deployed, inbox, pageState, handled, reloads, reads>>

\* The entry in flight fails: the build fails.
FetchFail ==
    /\ fetchOp # NoOp
    /\ fetchOp' = NoOp
    /\ UNCHANGED lateOps
    /\ EndFailed(fetchOp.gen)

\* The build's budget elapses: the operation in flight is cancelled and the
\* build fails. `late` tells whether the cancelled operation still answers.
BuildTimeout(g, late) ==
    /\ Building
    /\ gens[g].status = "BUILDING"
    /\ fetchOp' = NoOp
    /\ lateOps' = IF fetchOp # NoOp /\ late THEN lateOps \cup {fetchOp} ELSE lateOps
    /\ EndFailed(g)

\* The result of a cancelled operation arrives.
LateResult(op) ==
    /\ op \in lateOps
    /\ lateOps' = lateOps \ {op}
    /\ gens' = DiscardLate(gens, op)
    /\ UNCHANGED <<outside, deployed, swState, fetchOp, swError, inbox, pageState, handled,
                   reloads, reads>>

\* Every entry was fetched within the budget: BUILDING -> VERIFIED.
Verify(g) ==
    /\ Building
    /\ gens[g].status = "BUILDING"
    /\ fetchOp = NoOp
    /\ Complete(gens[g])
    /\ gens' = [gens EXCEPT ![g].status = "VERIFIED"]
    /\ UNCHANGED <<outside, deployed, swState, fetchOp, lateOps, swError, inbox, pageState,
                   handled, reloads, reads>>

\* The controller commits the generation the builder returned, prunes the
\* others and, after an update, notifies the page.
Commit(g) ==
    /\ Building
    /\ gens[g].status = "VERIFIED"
    /\ gens' = Cutover(gens, g)
    /\ inbox' = inbox \o Notify(swState)
    /\ swState' = "READY"
    /\ UNCHANGED <<outside, deployed, fetchOp, lateOps, swError, pageState, handled, reloads,
                   reads>>

\* The worker is stopped; the stores persist until its next activation.
Restart ==
    /\ swState = "READY"
    /\ swState' = "UNINITIALIZED"
    /\ UNCHANGED <<outside, deployed, gens, fetchOp, lateOps, swError, inbox, pageState,
                   handled, reloads, reads>>

\* The page requests its next asset and the network answers with `net`: the
\* request is served fresh (feeding the generation being built), served from
\* the cache, or fails.
Serve(net) ==
    /\ swState # "UNINITIALIZED"
    /\ Len(reads) < NumAssets
    /\ LET a == Len(reads) + 1
           src == ServeDecision(net, gens)
           had == net # "ok" /\ Committed(gens) # {}
           fed == WithStatus(gens, "BUILDING")
       IN  /\ IF src = "cache"
              THEN \E c \in Readable(gens) :
                      reads' = Append(reads,
                          [asset |-> a, netFailed |-> net # "ok", had |-> had, src |-> src,
                           gen |-> c, status |-> gens[c].status,
                           content |-> gens[c].assets[a]])
              ELSE reads' = Append(reads,
                          [asset |-> a, netFailed |-> net # "ok", had |-> had, src |-> src,
                           gen |-> 0, status |-> "", content |-> 0])
           /\ gens' = IF net = "ok" /\ fed # {}
                      THEN Store(gens, [gen |-> Lowest(fed), asset |-> a])
                      ELSE gens
    /\ UNCHANGED <<outside, deployed, swState, fetchOp, lateOps, swError, inbox, pageState,
                   handled, reloads>>

(* ------------------------------ the page ------------------------------ *)

\* window 'load': the worker is registered and, once register() resolves, the
\* message listener is added.
PageLoaded ==
    /\ pageState = "loading"
    /\ pageState' = "listening"
    /\ UNCHANGED <<outside, deployed, swState, gens, fetchOp, lateOps, swError, inbox,
                   handled, reloads, reads>>

\* The page runs the main.js that server.js reads and serves (src/main.js behind
\* the rescue code): the worker is registered and no message listener is added.
MainLoaded ==
    /\ pageState = "loading"
    /\ pageState' = "loaded"
    /\ UNCHANGED <<outside, deployed, swState, gens, fetchOp, lateOps, swError, inbox,
                   handled, reloads, reads>>

\* A posted message is dispatched to the page: the listener, if it is there
\* yet, reloads the page on {action: "reload"}.
Deliver ==
    /\ inbox # <<>>
    /\ inbox' = Tail(inbox)
    /\ IF pageState = "listening"
       THEN /\ handled' = handled + 1
            /\ IF ShouldReload(Head(inbox))
               THEN /\ reloads' = reloads + 1
                    /\ pageState' = "loading"
                    /\ reads' = <<>>
               ELSE UNCHANGED <<reloads, pageState, reads>>
       ELSE UNCHANGED <<handled, reloads, pageState, reads>>
    /\ UNCHANGED <<outside, deployed, swState, gens, fetchOp, lateOps, swError>>

\* The user loads the page again.
Navigate ==
    /\ reads # <<>>
    /\ reads' = <<>>
    /\ pageState' = "loading"
    /\ UNCHANGED <<outside, deployed, swState, gens, fetchOp, lateOps, swError, inbox,
                   handled, reloads>>

\* The install/update cycles of the controller; `lates` holds the ways a
\* cancelled operation may behave.
Cycle(lates) ==
    \/ Deploy
    \/ Activate
    \/ \E g \in GenIds : FetchAsset(g)
    \/ FetchOk
    \/ FetchFail
    \/ \E g \in GenIds, late \in lates : BuildTimeout(g, late)
    \/ \E g \in GenIds : Verify(g)
    \/ \E g \in GenIds : Commit(g)
    \/ Restart

\* The cycles, interleaved with the requests of page loads.
CacheNext ==
    \/ Cycle({FALSE})
    \/ \E net \in NetOutcomes : Serve(net)
    \/ Navigate

CacheSpec == Init /\ [][CacheNext]_vars

\* The cycles, with cancelled operations that answer late.
LateNext ==
    \/ Cycle(BOOLEAN)
    \/ \E op \in lateOps : LateResult(op)

LateSpec == Init /\ [][LateNext]_vars

\* The cycles, interleaved with the page's load handler and message dispatch.
NotifyNext ==
    \/ Cycle({FALSE})
    \/ PageLoaded
    \/ MainLoaded
    \/ Deliver

NotifySpec == Init /\ [][NotifyNext]_vars

CacheTypeOK ==
    /\ deployed \in 1..MaxVersions
    /\ swState \in {"UNINITIALIZED", "FIRST_TIME_INSTALL", "UPDATE_CHECK", "READY"}
    /\ \A g \in GenIds :
          /\ gens[g].status \in {"NONE", "BUILDING", "VERIFIED", "COMMITTED", "ABANDONED"}
          /\ gens[g].tag \in 0..MaxVersions
    /\ Len(reads) <= NumAssets
    /\ handled \in 0..MaxGens
    /\ reloads \in 0..MaxGens

(* ------------------------- claims on the cache ------------------------ *)

\* What readers can be served from: version tag and asset -> content of the
\* COMMITTED generation (empty when there is none).
CommittedView(gs) ==
    {[tag |-> gs[g].tag, assets |-> gs[g].assets] : g \in Committed(gs)}

FailedAttempts ==
    {g \in GenIds : gens[g].status = "ABANDONED" /\ ~gens[g].cut}

\* C11: a build attempt that fails (an asset fetch fails or the build times
\* out) leaves the COMMITTED generation as it was, same version tag and same
\* asset -> content mapping, or still none: the step that abandons a BUILDING
\* generation does not change it, and no step other than the cutover of a
\* VERIFIED generation ever does.
C11_FailedBuildKeepsCommitted ==
    [][ /\ (\E g \in GenIds :
              gens[g].status = "BUILDING" /\ gens'[g].status = "ABANDONED")
           => CommittedView(gens') = CommittedView(gens)
        /\ CommittedView(gens') # CommittedView(gens)
           => \E g \in GenIds :
                 gens[g].status = "VERIFIED" /\ gens'[g].status = "COMMITTED"
      ]_vars

\* An update failed after a generation had been committed, and that generation
\* still serves.
C11_Witness ==
    \E g \in Committed(gens), h \in FailedAttempts :
        /\ h > g
        /\ gens[h].kind = "UPDATE_CHECK"
        /\ Complete(gens[g])

ServedReads == {i \in 1..Len(reads) : reads[i].src # "failed"}

\* Where a served asset came from: a generation, or the network (0).
Provenance(e) == IF e.src = "network" THEN 0 ELSE e.gen

\* C12: the assets served during one page load come from a single generation,
\* never one entry from generation N and another from N+1, nor a fresh network
\* copy of one asset beside committed copies of others.
C12_OnePageLoadOneGeneration ==
    \A i, j \in ServedReads : Provenance(reads[i]) = Provenance(reads[j])

HasEveryEntry(gen) == \A a \in Manifest : gen.assets[a] # 0

CacheReads == {i \in 1..Len(reads) : reads[i].src = "cache"}

\* C13: a generation becomes VERIFIED only with every manifest entry fetched
\* into it (so no partial generation is VERIFIED or COMMITTED); an operation
\* that ends without its entry leaves its generation ABANDONED, for good; and
\* no read is answered from a generation that is ABANDONED or was abandoned
\* by a failed build.
C13_VerifiedOnlyComplete ==
    /\ [](\A g \in GenIds :
            gens[g].status \in {"VERIFIED", "COMMITTED"} => HasEveryEntry(gens[g]))
    /\ [](\A i \in CacheReads :
            reads[i].status # "ABANDONED" /\ reads[i].gen \notin FailedAttempts)
    /\ [][ /\ \A g \in GenIds :
                /\ gens[g].status = "BUILDING" /\ gens'[g].status = "VERIFIED"
                   => HasEveryEntry(gens[g])
                /\ gens[g].status = "ABANDONED" => gens'[g].status = "ABANDONED"
           /\ (fetchOp # NoOp /\ fetchOp' = NoOp
                 /\ gens'[fetchOp.gen].assets[fetchOp.asset] = 0)
              => gens'[fetchOp.gen].status = "ABANDONED"
         ]_vars

\* A build was abandoned, a later one was committed, and a read was answered
\* from the committed one.
C13_Witness ==
    \E h \in FailedAttempts, i \in CacheReads :
        /\ reads[i].gen > h
        /\ gens[reads[i].gen].status = "COMMITTED"

(* ==================== the injected configuration ====================== *)

\* process.env.X || 'default': an unset (or empty) variable takes the default.
Or(value, default) == IF value = Unset THEN default ELSE value

\* const CACHE_VERSION = process.env.CACHE_VERSION || 'v2'
CACHE_VERSION(e) == Or(e.CACHE_VERSION, <<"v2">>)

\* const APP_NAME = process.env.APP_NAME || 'mpaka'
APP_NAME(e) == Or(e.APP_NAME, <<"mpaka">>)

DefaultFirstTimeTimeout == <<"2", "0", "0", "0", "0">>

DefaultReturningUserTimeout == <<"5", "0", "0", "0">>

\* The values the environment may give the two timeouts, in milliseconds.
TimeoutSettings ==
    {Unset, <<"3", "0", "0", "0">>, <<"5", "0", "0", "0">>,
     <<"2", "0", "0", "0", "0">>, <<"3", "0", "0", "0", "0">>}

Environments ==
    [CACHE_VERSION : {Unset, <<"v3">>}, APP_NAME : {Unset, <<"extract">>},
     SW_FIRST_TIME_TIMEOUT : TimeoutSettings,
     SW_RETURNING_USER_TIMEOUT : TimeoutSettings]

\* const injection = `self.SW_CACHE_NAME = ...`: the globals the served script
\* starts with, each a string literal built from the environment.
Inject(e) ==
    [SW_CACHE_NAME |-> APP_NAME(e) \o <<"-">> \o CACHE_VERSION(e),
     SW_TEMP_CACHE_NAME |-> APP_NAME(e) \o <<"-", "temp", "-">> \o CACHE_VERSION(e),
     SW_FIRST_TIME_TIMEOUT |->
         Or(e.SW_FIRST_TIME_TIMEOUT, DefaultFirstTimeTimeout),
     SW_RETURNING_USER_TIMEOUT |->
         Or(e.SW_RETURNING_USER_TIMEOUT, DefaultReturningUserTimeout)]

DigitValue(c) == CHOOSE d \in 0..9 : DigitChar[d + 1] = c

RECURSIVE ParseInt(_)
\* The number a string of decimal digits denotes.
ParseInt(text) ==
    IF text = <<>> THEN 0
    ELSE 10 * ParseInt(SubSeq(text, 1, Len(text) - 1)) + DigitValue(text[Len(text)])

\* The budget the controller waits for the network, by UserState.
TimeoutBudget(userState, globals) ==
    IF userState = "FIRST_TIME"
    THEN ParseInt(globals.SW_FIRST_TIME_TIMEOUT)
    ELSE ParseInt(globals.SW_RETURNING_USER_TIMEOUT)

\* The server is started with environment e.
StartServer(e) ==
    /\ injected = NotServed
    /\ env = NoEnv
    /\ e # NoEnv
    /\ env' = e
    /\ UNCHANGED <<injected, serverVars, handlerVars, cacheVars, profileVars, pageVars, rescueVars>>

\* app.get('/service-worker.js'): the script is served with the injection
\* prepended.
GetServiceWorker ==
    /\ injected = NotServed
    /\ injected' = Inject(env)
    /\ UNCHANGED <<env, serverVars, handlerVars, cacheVars, profileVars, pageVars, rescueVars>>

ConfigNext ==
    \/ \E e \in Environments : StartServer(e)
    \/ GetServiceWorker

ConfigSpec == Init /\ [][ConfigNext]_vars

\* C14: whatever the configuration, the budget used when UserState is
\* FIRST_TIME is strictly greater than the one used when it is RETURNING.
C14_FirstTimeBudgetGreater ==
    injected # NotServed =>
        TimeoutBudget("FIRST_TIME", injected) > TimeoutBudget("RETURNING", injected)

(* -------------------- claims on the cache, continued ------------------ *)

\* C15: a request for an asset fails exactly when its network fetch failed or
\* timed out and no COMMITTED generation existed; when one existed, the
\* failure is answered with the COMMITTED generation's copy of the asset.
C15_FailsOnlyWithoutCommitted ==
    \A i \in 1..Len(reads) :
        /\ reads[i].src = "failed" <=> (reads[i].netFailed /\ ~reads[i].had)
        /\ (reads[i].netFailed /\ reads[i].had)
           => /\ reads[i].src = "cache"
              /\ reads[i].status = "COMMITTED"
              /\ reads[i].content # 0

\* In one page load a request failed for want of a COMMITTED generation and,
\* after the commit, a later one fell back to the cache.
C15_Witness ==
    \E i, j \in 1..Len(reads) :
        /\ reads[i].src = "failed"
        /\ reads[j].src = "cache" /\ reads[j].netFailed

\* C16: when a first install fails (an asset fetch fails or the first-time
\* budget elapses) the controller surfaces the no-cache-available error and
\* there is still no COMMITTED generation; the first COMMITTED generation
\* comes only from the cutover of a VERIFIED generation holding every entry.
C16_FirstInstallFailureSurfaces ==
    /\ [](swState = "FIRST_TIME_INSTALL" => Committed(gens) = {})
    /\ [][ /\ (/\ swState = "FIRST_TIME_INSTALL"
               /\ \E g \in GenIds :
                     gens[g].status = "BUILDING" /\ gens'[g].status = "ABANDONED")
              => (swError' = NoCacheAvailable /\ Committed(gens') = {})
           /\ (Committed(gens) = {} /\ Committed(gens') # {})
              => \E g \in GenIds :
                    /\ gens[g].status = "VERIFIED"
                    /\ HasEveryEntry(gens[g])
                    /\ Committed(gens') = {g}
         ]_vars

\* A first install has failed: the error is surfaced and nothing is committed.
C16_Witness ==
    /\ swState = "READY"
    /\ swError = NoCacheAvailable
    /\ Committed(gens) = {}
    /\ \E g \in FailedAttempts : gens[g].kind = "FIRST_TIME_INSTALL"

UpdateCommits == {g \in GenIds : gens[g].cut /\ gens[g].kind = "UPDATE_CHECK"}

\* C17: a {action: "reload"} message has been posted for each generation an
\* UPDATE_CHECK committed and for nothing else (none for a first install, none
\* for a failed or abandoned update), and the page has reloaded on each message
\* dispatched to it.
C17_ReloadPostedAndObeyed ==
    /\ \A i \in 1..Len(inbox) : inbox[i].action = "reload"
    /\ reloads = handled
    /\ Len(inbox) + reloads = Cardinality(UpdateCommits)

\* C18: a read is answered from the cache only by a generation that is
\* COMMITTED when the read is answered, never by one that is BUILDING,
\* VERIFIED or ABANDONED (the in-progress store is never read).
C18_ReadsOnlyFromCommitted ==
    /\ [](\A i \in CacheReads :
            reads[i].status = "COMMITTED" /\ gens[reads[i].gen].cut)
    /\ [][ Len(reads') > Len(reads)
             => LET e == reads'[Len(reads')]
                IN  e.src = "cache" => gens[e.gen].status = "COMMITTED"
         ]_vars

\* A read was answered from the COMMITTED generation while the generation
\* being built held a copy of the same asset.
C18_Witness ==
    \E i \in CacheReads, b \in WithStatus(gens, "BUILDING") :
        /\ gens[b].assets[reads[i].asset] # 0
        /\ gens[reads[i].gen].status = "COMMITTED"

\* C19: when a build's budget elapses no operation of it is left in flight, and
\* the late result of a cancelled operation changes no generation: every entry
\* a generation holds was fetched for that generation, so nothing of a
\* cancelled build is in the COMMITTED generation or in a later one.
C19_LateResultDiscarded ==
    /\ [](fetchOp # NoOp => gens[fetchOp.gen].status = "BUILDING")
    /\ [](\A g \in GenIds, a \in Manifest : gens[g].assets[a] \in {0, g})
    /\ [][ (lateOps' # lateOps /\ lateOps' \subseteq lateOps) => gens' = gens ]_vars

\* The result of an operation cancelled by a timeout is still to come while a
\* generation built later is COMMITTED.
C19_Witness ==
    \E op \in lateOps, h \in Committed(gens) :
        /\ gens[op.gen].status = "ABANDONED"
        /\ h > op.gen

\* C20: at most one generation is BUILDING for a version tag, whatever the
\* interleaving of install/update cycles and served requests, and the operation
\* in flight belongs to it.
C20_OneBuilderPerVersion ==
    /\ \A t \in 1..MaxVersions :
          Cardinality({g \in GenIds :
                          gens[g].tag = t /\ gens[g].status = "BUILDING"}) <= 1
    /\ fetchOp # NoOp
       => WithStatus(gens, "BUILDING") \in {{}, {fetchOp.gen}}

\* A generation is being built for a version that already has a committed and
\* an abandoned generation, while a page load is being served.
C20_Witness ==
    \E g \in WithStatus(gens, "BUILDING"), h \in Committed(gens), k \in FailedAttempts :
        /\ gens[h].tag = gens[g].tag
        /\ gens[k].tag = gens[g].tag
        /\ fetchOp # NoOp
        /\ reads # <<>>

Started == {g \in GenIds : gens[g].status # "NONE"}

\* C21: commit and prune are one step. The step that commits a generation
\* leaves it the only COMMITTED one and every other generation ABANDONED with
\* its storage reclaimed; so in every state at most one generation is
\* COMMITTED, an ABANDONED one holds nothing, and the generations a read may be
\* answered from are the COMMITTED one alone.
C21_CommitAndPruneAtomic ==
    /\ [](/\ Cardinality(Committed(gens)) <= 1
          /\ \A g \in GenIds : gens[g].status = "ABANDONED" => gens[g].assets = NoAssets
          /\ Readable(gens) = Committed(gens))
    /\ [][ \A g \in GenIds :
             (gens[g].status = "VERIFIED" /\ gens'[g].status = "COMMITTED")
             => /\ Committed(gens') = {g}
                /\ \A h \in Started \ {g} :
                      gens'[h].status = "ABANDONED" /\ gens'[h].assets = NoAssets
         ]_vars

\* A generation that served has been replaced: it is ABANDONED and empty, the
\* new one is COMMITTED, and a read has been answered from the new one.
C21_Witness ==
    \E g \in GenIds, h \in Committed(gens), i \in CacheReads :
        /\ gens[g].status = "ABANDONED" /\ gens[g].cut
        /\ h > g
        /\ reads[i].gen = h

(* ----------------------- claims on the request, continued ------------- *)

\* Basic credentials are valid when they are the configured name, a colon and
\* the configured password.
ValidCredentials(h) ==
    h.scheme = "Basic" /\ h.credentials = <<BASIC_AUTH_USER, ":", BASIC_AUTH_PASS>>

\* C23: a request without valid Basic credentials is answered 401 and starts
\* no outbound fetch.
C23_NoFetchWithoutCredentials ==
    (pc # "idle" /\ ~ValidCredentials(req.auth))
    => (pc = "done" /\ res.status = 401 /\ log = <<>>)

PendingAttempts == {i \in 1..Len(log) : ~IsSettled(log[i])}

\* C24: the attempts of a request are sequential. At most one attempt awaits
\* its answer, it is the last one started and the handler is waiting for it;
\* every attempt before it has failed; and an attempt is started only when the
\* one before it has failed.
C24_AttemptsSequential ==
    /\ [](/\ Cardinality(PendingAttempts) <= 1
          /\ PendingAttempts \subseteq {Len(log)}
          /\ PendingAttempts # {} <=> pc \in {"fetch", "body"}
          /\ \A i \in 1..(Len(log) - 1) : Failed(log[i]))
    /\ [][ Len(log') > Len(log)
             => /\ Len(log') = Len(log) + 1
                /\ Len(log) > 0 => Failed(log[Len(log)])
         ]_vars

\* The second attempt is in flight, past a redirect, after the first failed;
\* the first attempt's request has a listener still to run.
C24_Witness ==
    /\ Len(log) = 2
    /\ PendingAttempts = {2}
    /\ Failed(log[1])
    /\ hops > 0
    /\ \E l \in linger : l.attempt = 1

\* ---------------------------------------------------------------------------
\* C25

\* The fetchWithHeaders call in flight has followed at least one redirect and its
\* terminal response is being read: curUrl is the final url of the chain.
ReachedThroughRedirects == pc = "body" /\ hops > 0

\* C25 (as claimed): when the page was reached through redirects, the base url
\* handed to extractTextContent for link resolution is the final url of the
\* redirect chain, not the url the client asked for.
C25_BaseUrlIsFinalUrl ==
    [][(ReachedThroughRedirects /\ pc' = "done" /\ res'.success)
          => res'.content.url = curUrl]_vars

\* ---------------------------------------------------------------------------
\* Browser profiles: the user agent and the headers enhancedFetch builds at each
\* attempt.

\* const userAgent = getRandomUserAgent(); const headers =
\* getEnhancedHeaders(userAgent, url): attempt Len(profiles) + 1 draws entry i
\* of the pool.
BuildProfile(u, i) ==
    /\ LoopCondition(Len(profiles) + 1)
    /\ profiles # <<>> => u = profiles[1].url
    /\ profiles' = Append(profiles,
                          [url |-> u,
                           userAgent |-> USER_AGENTS[i],
                           headers |-> getEnhancedHeaders(USER_AGENTS[i], u)])
    /\ UNCHANGED <<serverVars, handlerVars, cacheVars, configVars, pageVars, rescueVars>>

ProfileNext ==
    \E u \in FetchedUrls : \E i \in 1..Len(USER_AGENTS) : BuildProfile(u, i)

ProfileSpec == Init /\ [][ProfileNext]_vars

\* The pool by family, as its comments name the entries.
ChromiumFamily == {1, 2, 3, 6, 7, 10}

FirefoxFamily == {4, 5, 8}

ClientHints == {"sec-ch-ua", "sec-ch-ua-mobile", "sec-ch-ua-platform"}

SecFetch == {"Sec-Fetch-Dest", "Sec-Fetch-Mode", "Sec-Fetch-Site", "Sec-Fetch-User"}

\* C26: for every user agent of the pool the headers built for it match its
\* family: the three client-hint headers are all present for a Chromium-family
\* agent (Chrome, Edge) and all absent for any other; a Firefox-family profile
\* has neither client-hint nor Sec-Fetch-* headers.
C26_HeadersMatchFamily ==
    \A k \in 1..Len(profiles) : \A i \in 1..Len(USER_AGENTS) :
        profiles[k].userAgent = USER_AGENTS[i] =>
            LET names == DOMAIN profiles[k].headers
            IN  /\ i \in ChromiumFamily => ClientHints \subseteq names
                /\ i \notin ChromiumFamily => ClientHints \cap names = {}
                /\ i \in FirefoxFamily => (ClientHints \cup SecFetch) \cap names = {}
                /\ profiles[k].headers["User-Agent"] = USER_AGENTS[i]

\* One call has built an Edge, a Firefox and a Chrome profile.
C26_Witness ==
    /\ Len(profiles) = maxRetries
    /\ \E k \in 1..Len(profiles) : profiles[k].userAgent = USER_AGENTS[10]
    /\ \E k \in 1..Len(profiles) : profiles[k].userAgent = USER_AGENTS[4]
    /\ \E k \in 1..Len(profiles) : profiles[k].userAgent = USER_AGENTS[6]

\* ---------------------------------------------------------------------------
\* The page: extractions appended to the output.

\* The fetches awaited by the scripts of the page.
InFlightTotal == inFlight[1] + inFlight[2]

\* A click or an Enter may start fetches: the page is followed through
\* MaxExtractions of them.
MayStart == Len(extracted) + InFlightTotal + Cardinality(Scripts) <= MaxExtractions

\* handleFetch up to its await, in every script of `starting` (the url field
\* holds a valid url): setLoading(true), and the request is sent.
HandleFetch(starting) ==
    /\ isLoading' = [k \in Scripts |-> isLoading[k] \/ k \in starting]
    /\ inFlight' = [k \in Scripts |-> IF k \in starting THEN inFlight[k] + 1 ELSE inFlight[k]]
    /\ disabled' = (disabled \/ starting # {})
    /\ UNCHANGED <<output, extracted, serverVars, handlerVars, cacheVars, configVars, profileVars,
                   rescueVars>>

\* The user clicks the button: the 'click' listener of every script is
\* handleFetch itself.
Click ==
    /\ ~disabled
    /\ MayStart
    /\ HandleFetch(Scripts)

\* The user presses Enter in the url field: the 'keypress' listener of a script
\* calls handleFetch when its isLoading is false.
PressEnter ==
    /\ ~disabled
    /\ MayStart
    /\ HandleFetch({k \in Scripts : ~isLoading[k]})

\* handleFetch after its await in script k: the fetch ended with answer a; the
\* finally block calls setLoading(false).
FetchAnswered(k, a) ==
    /\ inFlight[k] > 0
    /\ inFlight' = [inFlight EXCEPT ![k] = @ - 1]
    /\ isLoading' = [isLoading EXCEPT ![k] = FALSE]
    /\ disabled' = FALSE
    /\ IF a.ok /\ a.success /\ a.content # <<>> THEN
           /\ output' = appendContent(output, a.content)
           /\ extracted' = Append(extracted, a.content)
       ELSE
           UNCHANGED <<output, extracted>>
    /\ UNCHANGED <<serverVars, handlerVars, cacheVars, configVars, profileVars, rescueVars>>

\* handleClear, the confirm dialog accepted.
HandleClear ==
    /\ Trim(output) # <<>>
    /\ output' = <<>>
    /\ extracted' = <<>>
    /\ UNCHANGED <<isLoading, inFlight, disabled, serverVars, handlerVars, cacheVars, configVars,
                   profileVars, rescueVars>>

PageNext ==
    \/ Click
    \/ PressEnter
    \/ \E k \in Scripts, a \in Answers : FetchAnswered(k, a)
    \/ HandleClear

PageSpec == Init /\ [][PageNext]_vars

\* The contents cs one after the other, a separator between two neighbours.
RECURSIVE Joined(_)
Joined(cs) ==
    IF cs = <<>> THEN <<>>
    ELSE IF Len(cs) = 1 THEN cs[1]
    ELSE cs[1] \o SEPARATOR \o Joined(Tail(cs))

\* The same, every content but the last without its trailing white space.
RECURSIVE JoinedTrimmed(_)
JoinedTrimmed(cs) ==
    IF cs = <<>> THEN <<>>
    ELSE IF Len(cs) = 1 THEN cs[1]
    ELSE TrimEnd(cs[1]) \o SEPARATOR \o JoinedTrimmed(Tail(cs))

\* A fetch of handleFetch ends without a content.
FailedExtraction ==
    /\ \E k \in Scripts : inFlight'[k] < inFlight[k]
    /\ extracted' = extracted

\* C27 (as claimed): after successful extractions without a clear in between
\* the output holds every extracted content, in extraction order, one separator
\* between two consecutive ones.
C27_OutputHoldsEveryContent == output = Joined(extracted)

\* C27 (amended): the output holds the extracted contents in extraction order,
\* one separator between two consecutive ones, every content but the last
\* without its trailing white space; a failed extraction leaves the output
\* unchanged.
C27_OutputHoldsTrimmedContents ==
    /\ [](output = JoinedTrimmed(extracted))
    /\ [][FailedExtraction => output' = output]_vars

\* Three contents were appended, the first of a page without text.
C27_Witness ==
    /\ InFlightTotal = 0
    /\ Len(extracted) = 3
    /\ TrimEnd(extracted[1]) # extracted[1]
    /\ output # <<>>

\* ---------------------------------------------------------------------------
\* C28

\* A step in which the controller enters an install/update cycle.
EntersCycle == ~Building /\ swState' \in {"FIRST_TIME_INSTALL", "UPDATE_CHECK"}

\* The cycle entered is the one UserState, recomputed at this step, asks for:
\* FIRST_TIME_INSTALL exactly when no COMMITTED generation exists, UPDATE_CHECK
\* exactly when one exists.
CycleMatchesUserState ==
    /\ swState' = "FIRST_TIME_INSTALL" <=> Committed(gens) = {}
    /\ swState' = "UPDATE_CHECK" <=> Committed(gens) # {}

\* No state is terminal: between cycles a cycle can start (while a generation
\* id is left), and a cycle in progress can end.
NoTerminalState ==
    /\ (~Building /\ Unused # {}) => ENABLED Activate
    /\ Building => ENABLED (\E g \in GenIds : BuildTimeout(g, FALSE) \/ Commit(g))

StartsAttempt == Len(log') > Len(log)

\* A step at which enhancedFetch starts to await randomDelay().
StartsDelay == pc # "delay" /\ pc' = "delay"

\* C29 (as claimed): no delay is awaited before the first attempt and exactly
\* one before every later attempt; a delay is awaited only after an attempt that
\* failed with HTTP status 403 and was not the last one, never after the final
\* attempt or after a failure that is not retryable.
C29_OneDelayBeforeEachRetry ==
    [][ /\ StartsAttempt => (pc = "delay" <=> Len(log) > 0)
        /\ pc = "delay" => (StartsAttempt \/ UNCHANGED <<pc, attempt, log>>)
        /\ StartsDelay => /\ Len(log') = Len(log)
                          /\ Len(log) < maxRetries
                          /\ Failed403(log'[Len(log)])
      ]_vars

\* ---------------------------------------------------------------------------
\* Termination of a request.

\* The remote server answers with a redirect once hops has reached MaxHops:
\* fetchWithHeaders follows it as it followed the others (the count alone stops
\* at MaxHops).
FollowRedirect(status, loc) ==
    /\ pc = "fetch"
    /\ IsRedirect(status, loc)
    /\ hops = MaxHops
    /\ curUrl' = resolveUrl(loc, curUrl)
    /\ UNCHANGED <<pc, req, attempt, hops, destroyed, linger, lastError, res, log>>

\* An event of the request in flight: the remote server acts, or the 30 s of
\* request.setTimeout pass without it.
RequestEvent ==
    \/ \E status \in Statuses, phrase \in ReasonPhrases,
          loc \in Locations \cup {EmptyUrl}, enc \in ContentEncodings :
              ResponseHead(status, phrase, loc, enc)
    \/ \E status \in Statuses, loc \in Locations : FollowRedirect(status, loc)
    \/ BodyEnd
    \/ ResponseAborted
    \/ \E e \in NetErrors : RequestError(e)
    \/ Timeout

LiveNext ==
    \/ Next
    \/ (\E status \in Statuses, loc \in Locations : FollowRedirect(status, loc)) /\ Apart

\* The timer of randomDelay fires; a request in flight is not left without an
\* event, since its inactivity timer runs.
LiveSpec ==
    /\ Init
    /\ [][LiveNext]_vars
    /\ WF_vars(DelayElapsed /\ Apart)
    /\ WF_vars(RequestEvent /\ Apart)

\* C30 (as claimed): every call of enhancedFetch terminates, whatever the
\* remote server does; every /api/extract request that arrived is eventually
\* answered.
C30_EveryRequestAnswered == (pc # "idle") ~> (pc = "done")

\* ---------------------------------------------------------------------------
\* C31

\* The listener of a destroyed request's 'error' event runs in this step.
DestroyErrorRuns(l) == l \in linger /\ l \notin linger' /\ l.event = "reqError"

\* C31: a fetchWithHeaders call settles exactly once, with the outcome of the
\* first of its completion events: no later event (body end, stream error,
\* request error, timeout) changes the outcome of a settled call, and the error
\* raised by request.destroy() after a timeout leaves the call a timeout.
C31_FirstEventFixesOutcome ==
    [][ /\ \A i \in 1..Len(log) :
              IsSettled(log[i]) => (Len(log') >= i /\ log'[i].result = log[i].result)
        /\ \A l \in linger :
              DestroyErrorRuns(l) => /\ IsTimeout(log[l.attempt])
                                     /\ IsTimeout(log'[l.attempt])
      ]_vars

\* The first call met its timeout before any response, and the 'error' listener
\* of the destroyed request has run since.
C31_Witness ==
    /\ Len(log) >= 1
    /\ log[1].status = 0
    /\ IsTimeout(log[1])
    /\ destroyed \/ Len(log) > 1
    /\ \A l \in linger : l.attempt # 1

\* ---------------------------------------------------------------------------
\* The cache-lock rescue: the code server.js puts in front of main.js, and the
\* install of the worker it registers.

\* The client opens the page, holding what earlier visits left.
Visit(names, reg) ==
    /\ rescuePage = "away"
    /\ rescuePage' = "loading"
    /\ cacheNames' = names
    /\ registration' = reg
    /\ UNCHANGED <<installing, serverVars, handlerVars, cacheVars, configVars, profileVars, pageVars>>

\* caches.keys() resolves in the rescue code served with the current
\* CACHE_VERSION. On a cache lock the registration found is unregistered and the
\* page reloaded; register() is called in either case, and `raced` tells whether
\* its registration was there before the reload when none was found.
RunRescue(raced) ==
    /\ rescuePage = "loading"
    /\ IF CacheLockDetected(cacheNames, CACHE_VERSION(env)) THEN
           /\ rescuePage' = "reloading"
           /\ registration' = IF registration THEN FALSE ELSE raced
       ELSE
           /\ rescuePage' = "shown"
           /\ registration' = TRUE
    /\ UNCHANGED <<cacheNames, installing, serverVars, handlerVars, cacheVars, configVars, profileVars,
                   pageVars>>

\* location.reload(): the page loads again.
Reloaded ==
    /\ rescuePage = "reloading"
    /\ rescuePage' = "loading"
    /\ UNCHANGED <<cacheNames, registration, installing, serverVars, handlerVars, cacheVars, configVars,
                   profileVars, pageVars>>

\* The user loads the page again.
LoadAgain ==
    /\ rescuePage = "shown"
    /\ rescuePage' = "loading"
    /\ UNCHANGED <<cacheNames, registration, installing, serverVars, handlerVars, cacheVars, configVars,
                   profileVars, pageVars>>

\* The registered worker starts the install of the version its script was
\* served with: the building generation is stored under SW_TEMP_CACHE_NAME.
InstallStarts ==
    /\ registration
    /\ installing = NotServed
    /\ Inject(env).SW_CACHE_NAME \notin cacheNames
    /\ installing' = Inject(env)
    /\ cacheNames' = cacheNames \cup {Inject(env).SW_TEMP_CACHE_NAME}
    /\ UNCHANGED <<rescuePage, registration, serverVars, handlerVars, cacheVars, configVars, profileVars,
                   pageVars>>

\* The install fails: the generation is abandoned and its storage reclaimed.
InstallFails ==
    /\ installing # NotServed
    /\ installing' = NotServed
    /\ cacheNames' = cacheNames \ {installing.SW_TEMP_CACHE_NAME}
    /\ UNCHANGED <<rescuePage, registration, serverVars, handlerVars, cacheVars, configVars, profileVars,
                   pageVars>>

\* The caches of the application named as name is.
SameApplication(names, name) == {n \in names : Head(n) = Head(name)}

\* The install commits: the generation is stored under SW_CACHE_NAME and the
\* other generations of the application are pruned.
InstallCommits ==
    /\ installing # NotServed
    /\ installing' = NotServed
    /\ cacheNames' = (cacheNames \ SameApplication(cacheNames, installing.SW_CACHE_NAME))
                         \cup {installing.SW_CACHE_NAME}
    /\ UNCHANGED <<rescuePage, registration, serverVars, handlerVars, cacheVars, configVars, profileVars,
                   pageVars>>

\* The server is started with a CACHE_VERSION and an APP_NAME of its own.
Release ==
    \E e \in Environments :
        /\ e.SW_FIRST_TIME_TIMEOUT = Unset
        /\ e.SW_RETURNING_USER_TIMEOUT = Unset
        /\ StartServer(e)

RescueNext ==
    \/ Release
    \/ \E names \in SUBSET EarlierCaches, reg \in BOOLEAN : Visit(names, reg)
    \/ \E raced \in BOOLEAN : RunRescue(raced)
    \/ Reloaded
    \/ LoadAgain
    \/ InstallStarts
    \/ InstallFails
    \/ InstallCommits

\* The browser runs the script of a page that loads and reloads when told to; a
\* registered worker starts its install, and an install ends.
RescueSpec ==
    /\ Init
    /\ [][RescueNext]_vars
    /\ WF_vars(\E raced \in BOOLEAN : RunRescue(raced))
    /\ WF_vars(Reloaded)
    /\ WF_vars(InstallStarts)
    /\ WF_vars(InstallFails \/ InstallCommits)

\* A step in which the rescue code runs.
RescueRuns == rescuePage = "loading" /\ rescuePage' # "loading"

\* A cache of the version the server runs exists: the committed one or the one
\* being built, under the names the server injects.
CurrentVersionCached ==
    \/ Inject(env).SW_CACHE_NAME \in cacheNames
    \/ Inject(env).SW_TEMP_CACHE_NAME \in cacheNames

\* C32: the rescue unregisters the service worker and reloads the page exactly
\* when at least one cache exists and no cache name contains '-' followed by the
\* current CACHE_VERSION; when a cache of the current version exists, or no
\* cache at all, no reload is triggered and the worker is registered.
C32_RescueExactlyOnCacheLock ==
    [][ RescueRuns =>
          /\ rescuePage' = "reloading"
                <=> /\ cacheNames # {}
                    /\ \A name \in cacheNames :
                          ~Includes(name, <<"-">> \o CACHE_VERSION(env))
          /\ (rescuePage' = "reloading" /\ registration) => ~registration'
          /\ (CurrentVersionCached \/ cacheNames = {})
                => (rescuePage' = "shown" /\ registration')
      ]_vars

\* The rescue has unregistered the worker and asked for a reload: the cache
\* committed under the version the server ran before its release is still held.
C32_Witness ==
    /\ rescuePage = "reloading"
    /\ ~registration
    /\ env # NoEnv
    /\ Inject(NoEnv).SW_CACHE_NAME \in cacheNames
    /\ ~CurrentVersionCached

\* ---------------------------------------------------------------------------
\* C33

\* C33 (as claimed): the rescue reloads the page only finitely often: every
\* load is followed by a load on which no reload is triggered and the page is
\* shown, also when the install of the current version fails or never ends.
C33_RescueReloadsFinitelyOften == (rescuePage = "loading") ~> (rescuePage = "shown")

\* ---------------------------------------------------------------------------
\* C34

\* C34 (as claimed): at most one extraction request of the page is in flight at
\* a time: a click or an Enter starts one request, and none while a request is
\* awaited.
C34_OneRequestInFlight == InFlightTotal <= 1

\* ---------------------------------------------------------------------------
\* C35

\* The piece that follows word and one separator in text.
PieceAfter(text, word) ==
    LET i == CHOOSE j \in 1..Len(text) : text[j] = word IN text[i + 2]

\* What a Chromium-family User-Agent string states: brand, major version,
\* platform.
StatedBrand(ua) == IF Includes(ua, <<"Edg">>) THEN "Microsoft Edge" ELSE "Google Chrome"

StatedMajor(ua) ==
    IF Includes(ua, <<"Edg">>) THEN PieceAfter(ua, "Edg") ELSE PieceAfter(ua, "Chrome")

StatedPlatform(ua) == IF Includes(ua, <<"Windows">>) THEN "Windows" ELSE "macOS"

\* C35 (as claimed): for each Chromium-family user agent of the pool, the brand
\* and the major version advertised in sec-ch-ua and the platform advertised in
\* sec-ch-ua-platform are those the User-Agent string states.
C35_ClientHintsMatchUserAgent ==
    \A k \in 1..Len(profiles) : \A i \in ChromiumFamily :
        profiles[k].userAgent = USER_AGENTS[i] =>
            LET ua == profiles[k].headers["User-Agent"]
                hint == profiles[k].headers["sec-ch-ua"]
                platform == profiles[k].headers["sec-ch-ua-platform"]
            IN  /\ hint[2] = StatedBrand(ua)
                /\ hint[4] = StatedMajor(ua)
                /\ platform[2] = StatedPlatform(ua)

(* ---------------------- requests handled together ---------------------- *)

\* Faulty variant: the loop counter is one variable of the module, advanced by
\* every request's loop.
NextAttemptShared(hs, r) ==
    1 + (CHOOSE a \in {hs[q].attempt : q \in Requests} :
             \A q \in Requests : hs[q].attempt <= a)

\* attempt++ on `let attempt`, a local of the enhancedFetch call of request r.
NextAttempt(hs, r) == hs[r].attempt + 1

\* getRandomUserAgent(), getEnhancedHeaders(userAgent, url), and the call of
\* fetchWithHeaders(url, headers): handler h waits for its attempt to settle.
CallWithHeaders(h, i) ==
    [h EXCEPT !.pc = "fetch",
              !.headers = getEnhancedHeaders(USER_AGENTS[i], h.req.url)]

\* The handler's answer is sent.
Answer(h, response) == [h EXCEPT !.pc = "done", !.res = response]

\* POST /api/extract arrives as request r while others are in progress:
\* basicAuth, validation, and enhancedFetch up to its first await.
ArriveAmong(r, h, u, i) ==
    /\ handlers[r].pc = "idle"
    /\ LET arrived == [handlers[r] EXCEPT !.req = [auth |-> h, url |-> u]]
       IN  handlers' = [handlers EXCEPT ![r] =
               IF basicAuth(h) # 0 THEN
                   Answer(arrived, ErrorResponse(basicAuth(h), basicAuthError(h), EmptyUrl))
               ELSE IF u.form = "empty" THEN
                   Answer(arrived, ErrorResponse(400, <<"URL is required">>, EmptyUrl))
               ELSE IF ~Parses(u) THEN
                   Answer(arrived, ErrorResponse(500, <<"Invalid URL">>, u))
               ELSE IF u.scheme \notin {"http:", "https:"} THEN
                   Answer(arrived,
                       ErrorResponse(500, <<"Only HTTP and HTTPS protocols are supported">>, u))
               ELSE
                   CallWithHeaders([arrived EXCEPT !.attempt = 1], i)]
    /\ UNCHANGED <<serverVars, cacheVars, configVars, profileVars, pageVars, rescueVars>>

\* randomDelay() of request r resolves: its next attempt is sent.
DelayElapsedAmong(r, i) ==
    /\ handlers[r].pc = "delay"
    /\ handlers' = [handlers EXCEPT ![r] = CallWithHeaders(handlers[r], i)]
    /\ UNCHANGED <<serverVars, cacheVars, configVars, profileVars, pageVars, rescueVars>>

\* The fetchWithHeaders promise awaited by request r settles with v: the rest of
\* the loop body, and of the handler when the loop is left.
SettledAmong(r, v) ==
    /\ handlers[r].pc = "fetch"
    /\ LET h == [handlers[r] EXCEPT !.inputs = Append(@, v)]
       IN  handlers' = [handlers EXCEPT ![r] =
               IF v.state = "fulfilled" THEN
                   Answer(h, SuccessResponse(extractTextContent(v.body, h.req.url), h.req.url))
               ELSE IF NextIteration(v.message, h.attempt) THEN
                   [h EXCEPT !.lastError = v.message,
                             !.attempt = NextAttempt(handlers, r),
                             !.pc = "delay"]
               ELSE
                   Answer([h EXCEPT !.lastError = v.message],
                          ErrorResponse(500, v.message, h.req.url))]
    /\ UNCHANGED <<serverVars, cacheVars, configVars, profileVars, pageVars, rescueVars>>

ConcurrentNext ==
    \/ \E r \in Requests, h \in AuthHeaders, u \in InputUrls, i \in DOMAIN USER_AGENTS :
           ArriveAmong(r, h, u, i)
    \/ \E r \in Requests, i \in DOMAIN USER_AGENTS : DelayElapsedAmong(r, i)
    \/ \E r \in Requests, v \in Outcomes : SettledAmong(r, v)

ConcurrentSpec == Init /\ [][ConcurrentNext]_vars

\* Request r passed basicAuth and reached the /api/extract handler.
Extracting(r) == handlers[r].pc # "idle" /\ basicAuth(handlers[r].req.auth) = 0

\* Requests r and q asked for the same URL and received the same remote responses.
SameInputs(r, q) ==
    /\ handlers[r].req.url = handlers[q].req.url
    /\ handlers[r].inputs = handlers[q].inputs

\* C37: extraction requests do not interfere. Whatever the interleaving of the
\* two requests, and whatever browser profiles their attempts drew, two requests
\* for the same URL that received the same remote responses have made the same
\* number of attempts, taken the same retry decisions (same last error, same
\* attempt counter) and sent the same response: none of these depends on what
\* the other request did.
C37_NoInterference ==
    \A r, q \in Requests :
        (Extracting(r) /\ Extracting(q) /\ SameInputs(r, q)) =>
            /\ handlers[r].attempt = handlers[q].attempt
            /\ handlers[r].lastError = handlers[q].lastError
            /\ handlers[r].res = handlers[q].res

\* Two requests with different credentials and different last browser profiles
\* have both been blocked twice and then served, and answered alike.
C37_Witness ==
    /\ Extracting(1) /\ Extracting(2) /\ SameInputs(1, 2)
    /\ handlers[1].pc = "done" /\ handlers[2].pc = "done"
    /\ Len(handlers[1].inputs) = 3
    /\ handlers[1].res.success
    /\ handlers[1].req.auth # handlers[2].req.auth
    /\ handlers[1].headers # handlers[2].headers

====
